---- MODULE Spec2Model ----
(***************************************************************************)
(* Model of the robot link protocol client of src/core/robot:              *)
(* ArmStateSubscriber (connection lifecycle, discovery handshake, receive  *)
(* loop) together with the message codecs it uses.                         *)
(*                                                                         *)
(* Every action is one run-to-completion segment of the JavaScript code:   *)
(* the statements executed between two `await` points.  A caller may get   *)
(* control at every await, so connect(), disconnect() and reconnect()      *)
(* interleave with in-flight handshakes and with pending receive waits.    *)
(***************************************************************************)
EXTENDS Integers, Sequences, FiniteSets, TLC

(***************************************************************************)
(* Bounds of the model.                                                    *)
(***************************************************************************)
MaxCalls == 2          \* connect()/reconnect() invocations by the caller
MaxDisconnects == 1    \* disconnect() invocations by the caller
MaxFrames == 2         \* telemetry frames the transport delivers
MaxUpdates == 1        \* updateConfig() invocations by the caller
MaxCommands == 1       \* executeCommand() invocations by the caller

VARIABLES
    isConnected,       \* ArmStateSubscriber.isConnected
    isConnecting,      \* ArmStateSubscriber.isConnecting
    currentConfig,     \* ArmStateSubscriber.currentConfig
    provider,          \* TRUE iff constructed with a provider (listeners set up)
    reconnectTimer,    \* TRUE iff ArmStateSubscriber.reconnectTimer is armed
    toolResponse,      \* what the latest executeCommand() returned
    nCommands,         \* executeCommand() invocations so far
    zmq_server,        \* the request socket of the discovery handshake
    zmq_dealer,        \* the command socket
    zmq_subscriber,    \* the telemetry socket
    call,              \* the connect()/reconnect() invocations and where each stands
    loop,              \* the receive loops, one per successful connect
    trace,             \* per operation, in order: the events it emitted and what it did
    nDisconnects,      \* disconnect() invocations so far
    nFrames,           \* frames delivered by the transport so far
    nUpdates,          \* updateConfig() invocations so far
    codec              \* the message a codec function is applied to, and its result

vars == <<isConnected, isConnecting, currentConfig, provider, codec, reconnectTimer,
          toolResponse, nCommands, zmq_server,
          zmq_dealer, zmq_subscriber, call, loop, trace, nDisconnects,
          nFrames, nUpdates>>

Calls == 1..MaxCalls

(***************************************************************************)
(* Connection configuration.                                               *)
(***************************************************************************)
defaultConfig ==
    [ipAddress |-> "localhost", port |-> 5555, topic |-> "arm_state",
     messageTimeout |-> 10000, maxConsecutiveTimeouts |-> 3]

\* { ...a, ...b }: the fields of b override those of a.
Merge(a, b) ==
    [k \in (DOMAIN a) \cup (DOMAIN b) |-> IF k \in DOMAIN b THEN b[k] ELSE a[k]]

\* connect() without an argument.
NoConfig == [k \in {} |-> 0]

\* The Partial<ConnectionConfig> arguments the caller passes.
ConfigArgs ==
    { NoConfig,
      [ipAddress |-> "robot", maxConsecutiveTimeouts |-> 2] }

\* this.currentConfig?.maxConsecutiveTimeouts || 3
MAX_CONSECUTIVE_TIMEOUTS(cfg) ==
    IF cfg.maxConsecutiveTimeouts = 0 THEN 3 ELSE cfg.maxConsecutiveTimeouts

\* this.currentConfig?.messageTimeout || 10000
MESSAGE_TIMEOUT_MS(cfg) ==
    IF cfg.messageTimeout = 0 THEN 10000 ELSE cfg.messageTimeout

\* `tcp://${ipAddress}:${port}`
server_endpoint(cfg) == <<cfg.ipAddress, cfg.port>>

(***************************************************************************)
(* The trace: emitted events (EventEmitter.emit) and socket operations.    *)
(* trace[c] is what invocation c did, in order: the disconnect() inside a  *)
(* reconnect(), then connect(), then the receive loop that connect()       *)
(* started.  trace[0] is what the latest direct disconnect() did.  An      *)
(* entry names the part that made it (src) and carries `late`: whether a   *)
(* disconnect() had been called since the receive loop making it started.  *)
(* n is the frame number of a stateUpdate, the port of a make_connection,  *)
(* the threshold of a startSubscriptionLoop, and for the link-lost error   *)
(* the number of timeouts since a wait of the loop last settled with a     *)
(* message.                                                                *)
(***************************************************************************)
Entry(ev, arg, src, id, n) ==
    [ev |-> ev, arg |-> arg, src |-> src, n |-> n,
     late |-> IF src = "loop" THEN loop[id].cancelled ELSE FALSE]

Log(id, entries) == [trace EXCEPT ![id] = @ \o entries]

EventNames == {"stateUpdate", "error", "connected", "disconnected", "connectionStatusChanged"}

\* emit("error", e): Node's EventEmitter throws e when no "error" listener is
\* registered; the only listener is the one setupEventListeners installs.
EmitErrorThrows == ~provider

(***************************************************************************)
(* Discovery reply (NetworkInfo.parseNetworkInfo).                         *)
(***************************************************************************)
LE16(port) == <<port % 256, port \div 256>>

GoodReply == <<127, 0, 0, 1>> \o LE16(5556) \o <<127, 0, 0, 1>> \o LE16(5557)
ShortReply == <<127, 0, 0, 1>> \o LE16(5556)
Replies == {GoodReply, ShortReply}

\* DataView.getUint8 / getUint16 past the end of the buffer throw a RangeError.
ParseThrows(msg) == Len(msg) < 12

\* A descriptor whose port is read most significant byte first.
IPV4At_BigEndian(msg, offset) ==
    [a |-> msg[offset + 1], b |-> msg[offset + 2], c |-> msg[offset + 3],
     d |-> msg[offset + 4], port |-> 256 * msg[offset + 5] + msg[offset + 6]]

\* a, b, c, d: getUint8(offset .. offset + 3); port: getUint16(offset + 4, true)
IPV4At(msg, offset) ==
    [a |-> msg[offset + 1], b |-> msg[offset + 2], c |-> msg[offset + 3],
     d |-> msg[offset + 4], port |-> msg[offset + 5] + 256 * msg[offset + 6]]

parseNetworkInfo(msg) == [dealer_info |-> IPV4At(msg, 0), sub_info |-> IPV4At(msg, 6)]

\* `tcp://${a}.${b}.${c}.${d}:${port}`
ipv4InfoToEndpoint(info) == <<info.a, info.b, info.c, info.d, info.port>>

(***************************************************************************)
(* Initial state: the state after the constructor.                         *)
(***************************************************************************)
NewSocket == [closed |-> FALSE, endpoints |-> {}, awaitingReply |-> FALSE]

\* A receive loop: where it stands (pc), its locals MAX_CONSECUTIVE_TIMEOUTS and
\* consecutiveTimeouts, and the next() requests that timed-out waits left pending
\* (abandoned).  History kept for the properties: cancelled (disconnect() was
\* called while the loop was waiting) and sinceReceive (the timeouts since a wait
\* last settled with a message).
NoLoop == [pc |-> "none", MAX |-> 0, consecutiveTimeouts |-> 0, abandoned |-> 0,
           cancelled |-> FALSE, sinceReceive |-> 0]

\* A loop that has returned: its locals are gone.
Ended(l) ==
    [pc |-> "ended", MAX |-> 0, consecutiveTimeouts |-> 0, abandoned |-> 0,
     cancelled |-> loop[l].cancelled, sinceReceive |-> 0]

\* No executeCommand() has returned yet.
NoResponse ==
    [command |-> "none", isError |-> FALSE, text |-> "", sent |-> FALSE, state |-> ""]

\* No codec function is being applied.
NoCodec ==
    [pc |-> "idle", from |-> "",
     request |-> [request_type |-> 0, command_id |-> [cid |-> 0],
                  command_type |-> 0, move_type |-> 0,
                  move_target |-> [joint_positions |-> <<>>]],
     wire |-> <<>>,
     decoded |-> [request_type |-> 0, command_id |-> [cid |-> 0],
                  command_type |-> 0, move_type |-> 0,
                  move_target |-> [joint_positions |-> <<>>]],
     message |-> [length |-> 0, byteOffset |-> 0, byteLength |-> 0,
                  frame |-> <<>>],
     state |-> <<>>,
     result |-> ""]

NewCall == [kind |-> "none", pc |-> "idle", made |-> FALSE, outcome |-> "none"]

Init ==
    /\ isConnected = FALSE
    /\ isConnecting = FALSE
    /\ currentConfig = defaultConfig
    /\ provider \in BOOLEAN
    /\ codec = NoCodec
    /\ reconnectTimer = FALSE
    /\ toolResponse = NoResponse
    /\ nCommands = 0
    /\ zmq_server = NewSocket
    /\ zmq_dealer = NewSocket
    /\ zmq_subscriber = NewSocket
    /\ call = [c \in Calls |-> NewCall]
    /\ loop = [c \in Calls |-> NoLoop]
    /\ trace = [c \in 0..MaxCalls |-> <<>>]
    /\ nDisconnects = 0
    /\ nFrames = 0
    /\ nUpdates = 0

\* Invocations are numbered in the order the caller makes them.
NextCall(c) ==
    /\ call[c].pc = "idle"
    /\ \A b \in Calls : b < c => call[b].pc # "idle"

\* A guard that forgets the Connecting state.
AlreadyActive_ConnectedOnly == isConnected

\* if (this.isConnecting || this.isConnected) return
AlreadyActive == isConnecting \/ isConnected

(***************************************************************************)
(* connect(config), up to its first await.  make_connection() runs inside  *)
(* it up to `await this.zmq_server.send("get_info")`.                       *)
(***************************************************************************)
ConnectBody(c, kind, config) ==
    IF AlreadyActive
    THEN /\ call' = [call EXCEPT ![c] = [kind |-> kind, pc |-> "done", made |-> FALSE,
                                         outcome |-> "noop"]]
         /\ UNCHANGED <<isConnected, isConnecting, currentConfig, zmq_server, trace>>
    ELSE LET cfg == Merge(currentConfig, config)
             t1 == Log(c,
                   << Entry("connectionStatusChanged", "connecting", "connect", c, 0),
                      Entry("make_connection", cfg.ipAddress, "connect", c, cfg.port) >>)
         IN  /\ currentConfig' = cfg
             /\ isConnecting' = TRUE
             /\ UNCHANGED isConnected
             /\ trace' = t1
             /\ IF zmq_server.closed
                THEN \* zmq_server.connect throws: make_connection returns false
                     /\ call' = [call EXCEPT ![c] = [kind |-> kind, pc |-> "made",
                                                     made |-> FALSE, outcome |-> "none"]]
                     /\ UNCHANGED zmq_server
                ELSE /\ call' = [call EXCEPT ![c] = [kind |-> kind, pc |-> "send",
                                                     made |-> FALSE, outcome |-> "none"]]
                     /\ zmq_server' = [zmq_server EXCEPT
                                          !.endpoints = @ \cup {server_endpoint(cfg)}]

ConnectCall(c, config) ==
    /\ NextCall(c)
    /\ ConnectBody(c, "connect", config)
    /\ UNCHANGED <<provider, codec, reconnectTimer, toolResponse,
                   nCommands, zmq_dealer, zmq_subscriber, loop, nDisconnects, nFrames,
                   nUpdates>>

(***************************************************************************)
(* make_connection(), `await this.zmq_server.send("get_info")` settles.    *)
(* A REQ socket refuses a second request while a reply is outstanding.     *)
(***************************************************************************)
SendDone(c, ok) ==
    /\ call[c].pc = "send"
    /\ ok => (~zmq_server.closed /\ ~zmq_server.awaitingReply)
    /\ IF ok
       THEN /\ zmq_server' = [zmq_server EXCEPT !.awaitingReply = TRUE]
            /\ call' = [call EXCEPT ![c].pc = "receive"]
       ELSE /\ call' = [call EXCEPT ![c].pc = "made", ![c].made = FALSE]
            /\ UNCHANGED zmq_server
    /\ UNCHANGED <<isConnected, isConnecting, currentConfig, provider, codec, reconnectTimer, toolResponse,
                   nCommands, zmq_dealer,
                   zmq_subscriber, loop, trace, nDisconnects, nFrames, nUpdates>>

(***************************************************************************)
(* make_connection(), `await this.zmq_server.receive()` settles with a     *)
(* reply; the rest of make_connection() runs to its return.                *)
(***************************************************************************)
ReceiveReply(c, response) ==
    /\ call[c].pc = "receive"
    /\ ~zmq_server.closed
    /\ zmq_server' = [zmq_server EXCEPT !.awaitingReply = FALSE]
    /\ IF ParseThrows(response)
       THEN /\ call' = [call EXCEPT ![c].pc = "made", ![c].made = FALSE]
            /\ UNCHANGED <<zmq_dealer, zmq_subscriber>>
       ELSE LET net_infos == parseNetworkInfo(response)
                dealer_endpoint == ipv4InfoToEndpoint(net_infos.dealer_info)
                sub_endpoint == ipv4InfoToEndpoint(net_infos.sub_info)
            IN  IF zmq_dealer.closed
                THEN /\ call' = [call EXCEPT ![c].pc = "made", ![c].made = FALSE]
                     /\ UNCHANGED <<zmq_dealer, zmq_subscriber>>
                ELSE /\ zmq_dealer' = [zmq_dealer EXCEPT
                                          !.endpoints = @ \cup {dealer_endpoint}]
                     /\ IF zmq_subscriber.closed
                        THEN /\ call' = [call EXCEPT ![c].pc = "made", ![c].made = FALSE]
                             /\ UNCHANGED zmq_subscriber
                        ELSE /\ zmq_subscriber' = [zmq_subscriber EXCEPT
                                                      !.endpoints = @ \cup {sub_endpoint}]
                             /\ call' = [call EXCEPT ![c].pc = "made", ![c].made = TRUE]
    /\ UNCHANGED <<isConnected, isConnecting, currentConfig, provider, codec, reconnectTimer, toolResponse,
                   nCommands, loop, trace,
                   nDisconnects, nFrames, nUpdates>>

\* `await this.zmq_server.receive()` rejects (transport error, socket closed).
ReceiveFails(c) ==
    /\ call[c].pc = "receive"
    /\ call' = [call EXCEPT ![c].pc = "made", ![c].made = FALSE]
    /\ zmq_server' = [zmq_server EXCEPT !.awaitingReply = FALSE]
    /\ UNCHANGED <<isConnected, isConnecting, currentConfig, provider, codec, reconnectTimer, toolResponse,
                   nCommands, zmq_dealer,
                   zmq_subscriber, loop, trace, nDisconnects, nFrames, nUpdates>>

(***************************************************************************)
(* connect() after `await this.make_connection()`: the success path up to  *)
(* the first wait of the receive loop it starts, or the catch block.       *)
(***************************************************************************)
\* A success path that starts the receive loop before it announces the connection.
SuccessPath_LoopFirst(c) ==
    << Entry("startSubscriptionLoop", "", "connect", c,
             MAX_CONSECUTIVE_TIMEOUTS(currentConfig)),
       Entry("connected", "", "connect", c, 0),
       Entry("connectionStatusChanged", "connected", "connect", c, 0) >>

\* emit("connected"); emit("connectionStatusChanged", "connected");
\* this.startSubscriptionLoop()
SuccessPath(c) ==
    << Entry("connected", "", "connect", c, 0),
       Entry("connectionStatusChanged", "connected", "connect", c, 0),
       Entry("startSubscriptionLoop", "", "connect", c,
             MAX_CONSECUTIVE_TIMEOUTS(currentConfig)) >>

\* A catch block that calls scheduleReconnect().
reconnectTimerAfterFailure_Armed == TRUE

\* catch of connect(): scheduleReconnect() is not called, the timer stays as it is
reconnectTimerAfterFailure == reconnectTimer

\* A catch block that leaves the connecting flag as it found it.
isConnectingAfterFailure_Kept == isConnecting

\* catch: this.isConnecting = false
isConnectingAfterFailure == FALSE

\* A success path that leaves the connecting flag as it found it.
isConnectingAfterSuccess_Kept == isConnecting

\* success path: this.isConnected = true; this.isConnecting = false
isConnectingAfterSuccess == FALSE

ConnectFinish(c) ==
    /\ call[c].pc = "made"
    /\ IF call[c].made
       THEN /\ isConnected' = TRUE
            /\ isConnecting' = isConnectingAfterSuccess
            /\ trace' = Log(c, SuccessPath(c))
            /\ UNCHANGED reconnectTimer
            /\ loop' = [loop EXCEPT ![c] =
                  [pc |-> "waiting", MAX |-> MAX_CONSECUTIVE_TIMEOUTS(currentConfig),
                   consecutiveTimeouts |-> 0, abandoned |-> 0, cancelled |-> FALSE,
                   sinceReceive |-> 0]]
            /\ call' = [call EXCEPT ![c].pc = "done", ![c].made = FALSE,
                                     ![c].outcome = "connected"]
       ELSE /\ isConnecting' = isConnectingAfterFailure
            /\ isConnected' = FALSE
            /\ reconnectTimer' = reconnectTimerAfterFailure
            /\ UNCHANGED loop
            /\ IF EmitErrorThrows
               THEN /\ trace' = Log(c, << Entry("unhandled",
                                   "Failed to establish ZMQ connections", "connect", c, 0) >>)
                    /\ call' = [call EXCEPT ![c].pc = "done", ![c].outcome = "rejected"]
               ELSE /\ trace' = Log(c,
                         << Entry("error", "Failed to establish ZMQ connections",
                                  "connect", c, 0),
                            Entry("connectionStatusChanged", "error", "connect", c, 0) >>)
                    /\ call' = [call EXCEPT ![c].pc = "done", ![c].outcome = "failed"]
    /\ UNCHANGED <<currentConfig, provider, codec, toolResponse, nCommands, zmq_server, zmq_dealer, zmq_subscriber,
                   nDisconnects, nFrames, nUpdates>>

(***************************************************************************)
(* disconnect(): it has no await and runs to completion.  `fails` names    *)
(* the socket whose close() throws, if any: the three closes share one try *)
(* block, so a throw skips the closes after it.                            *)
(***************************************************************************)
\* The lifecycle state of spec section 4.4, read off the two flags.
Lifecycle ==
    IF isConnected THEN "Connected"
    ELSE IF isConnecting THEN "Connecting"
    ELSE "Disconnected"

CloseFailures == {"none", "zmq_subscriber", "zmq_dealer", "zmq_server"}

ClosedSocket == [closed |-> TRUE, endpoints |-> {}, awaitingReply |-> FALSE]

CloseTrace(id, fails) ==
    IF fails = "zmq_subscriber"
    THEN << Entry("closeThrows", "zmq_subscriber", "disconnect", id, 0) >>
    ELSE << Entry("close", "zmq_subscriber", "disconnect", id, 0) >> \o
         IF fails = "zmq_dealer"
         THEN << Entry("closeThrows", "zmq_dealer", "disconnect", id, 0) >>
         ELSE << Entry("close", "zmq_dealer", "disconnect", id, 0) >> \o
              IF fails = "zmq_server"
              THEN << Entry("closeThrows", "zmq_server", "disconnect", id, 0) >>
              ELSE << Entry("close", "zmq_server", "disconnect", id, 0) >>

\* A disconnect() that leaves the connecting flag as it found it.
isConnectingAfterDisconnect_Kept == isConnecting

\* disconnect(): this.isConnecting = false
isConnectingAfterDisconnect == FALSE

DisconnectBody(id, fails) ==
    /\ isConnected' = FALSE
    /\ isConnecting' = isConnectingAfterDisconnect
    /\ reconnectTimer' = FALSE
    /\ zmq_subscriber' = IF fails = "zmq_subscriber" THEN zmq_subscriber ELSE ClosedSocket
    /\ zmq_dealer' = IF fails \in {"zmq_subscriber", "zmq_dealer"}
                     THEN zmq_dealer ELSE ClosedSocket
    /\ zmq_server' = IF fails = "none" THEN ClosedSocket ELSE zmq_server
    /\ trace' = [trace EXCEPT ![id] =
          << Entry("disconnect", Lifecycle, "disconnect", id, 0),
             Entry("isConnected", "false", "disconnect", id, 0) >> \o
          CloseTrace(id, fails) \o
          << Entry("disconnected", "", "disconnect", id, 0),
             Entry("connectionStatusChanged", "disconnected", "disconnect", id, 0) >>]
    /\ loop' = [l \in Calls |->
                  IF loop[l].pc = "waiting" THEN [loop[l] EXCEPT !.cancelled = TRUE]
                  ELSE loop[l]]

Disconnect(fails) ==
    /\ nDisconnects < MaxDisconnects
    /\ nDisconnects' = nDisconnects + 1
    /\ DisconnectBody(0, fails)
    /\ UNCHANGED <<currentConfig, provider, codec, toolResponse, nCommands, call, nFrames, nUpdates>>

(***************************************************************************)
(* reconnect(): `await this.disconnect()` then `await this.connect()`.     *)
(***************************************************************************)
ReconnectCall(c, fails) ==
    /\ NextCall(c)
    /\ DisconnectBody(c, fails)
    /\ call' = [call EXCEPT ![c] = [kind |-> "reconnect", pc |-> "gap", made |-> FALSE,
                                    outcome |-> "none"]]
    /\ UNCHANGED <<currentConfig, provider, codec, toolResponse, nCommands, nDisconnects, nFrames, nUpdates>>

ReconnectResume(c) ==
    /\ call[c].pc = "gap"
    /\ ConnectBody(c, "reconnect", NoConfig)
    /\ UNCHANGED <<provider, codec, reconnectTimer, toolResponse,
                   nCommands, zmq_dealer, zmq_subscriber, loop, nDisconnects, nFrames,
                   nUpdates>>

(***************************************************************************)
(* updateConfig(config)                                                    *)
(***************************************************************************)
UpdateConfig(config) ==
    /\ nUpdates < MaxUpdates
    /\ nUpdates' = nUpdates + 1
    /\ currentConfig' = Merge(currentConfig, config)
    /\ UNCHANGED <<isConnected, isConnecting, provider, codec, reconnectTimer, toolResponse,
                   nCommands, zmq_server, zmq_dealer,
                   zmq_subscriber, call, loop, trace, nDisconnects, nFrames>>

(***************************************************************************)
(* executeCommand(params).  A ToolResponse is recorded with the command it *)
(* answers, the lifecycle state in which the command was handled (state),  *)
(* and whether the handler sent a request on the dealer socket (sent).     *)
(***************************************************************************)
\* formatResponse.toolError(text)
toolError(text) == [isError |-> TRUE, text |-> text, sent |-> FALSE]

\* formatResponse.toolResult(text, []), returned by a handler that sent nothing;
\* the success text of a handler is written as the name of its command.
toolResult(text) == [isError |-> FALSE, text |-> text, sent |-> FALSE]

Answer(command, result) ==
    [command |-> command, isError |-> result.isError, text |-> result.text,
     sent |-> result.sent, state |-> Lifecycle]

\* A switch with a case for a name that has no handler.
CommandSet_Open ==
    {"connect", "disconnect", "reconnect", "enable", "disable", "home",
     "move_to_target", "stop", "emergency_stop", "reset", "save_home_position",
     "reset_home_position", "fly"}

\* The cases of the switch in executeCommand.
CommandSet ==
    {"connect", "disconnect", "reconnect", "enable", "disable", "home",
     "move_to_target", "stop", "emergency_stop", "reset", "save_home_position",
     "reset_home_position"}

\* The commands that run the lifecycle operations.
LifecycleCommands == {"connect", "disconnect", "reconnect"}

\* The names a caller passes: the command set and a name outside it.
CommandNames == CommandSet \cup {"fly"}

\* The handlers that begin with `if (!this.isConnected) return toolError(...)`.
ConnectionChecked == {"enable", "disable", "home", "move_to_target", "stop", "reset"}

\* handleEnable .. handleResetHomePosition, and the default case of the switch.
Handle(command) ==
    IF command \notin CommandSet
    THEN toolError("Unknown command")
    ELSE IF command \in ConnectionChecked /\ ~isConnected
    THEN toolError("Robot arm is not connected")
    ELSE toolResult(command)

ExecuteCommand(command) ==
    /\ nCommands < MaxCommands
    /\ nCommands' = nCommands + 1
    /\ toolResponse' = Answer(command, Handle(command))
    /\ UNCHANGED <<isConnected, isConnecting, currentConfig, provider, codec, reconnectTimer,
                   zmq_server, zmq_dealer, zmq_subscriber, call, loop, trace,
                   nDisconnects, nFrames, nUpdates>>

\* The data a caller passes with the connect command: none, or a record
\* lacking the port, lacking the host, or complete.
ConnectionDatas ==
    { NoConfig, [ipAddress |-> "robot"], [port |-> 5555],
      [ipAddress |-> "robot", port |-> 5555] }

\* connectionData.ipAddress, connectionData.port: "" and 0 stand for undefined.
ipAddressOf(connectionData) ==
    IF "ipAddress" \in DOMAIN connectionData THEN connectionData.ipAddress ELSE ""

portOf(connectionData) ==
    IF "port" \in DOMAIN connectionData THEN connectionData.port ELSE 0

\* A validation that looks at the host only.
MissingParameters_HostOnly(connectionData) == ipAddressOf(connectionData) = ""

\* !connectionData || !connectionData.ipAddress || !connectionData.port
MissingParameters(connectionData) ==
    \/ connectionData = NoConfig
    \/ ipAddressOf(connectionData) = ""
    \/ portOf(connectionData) = 0

\* handleConnect(connectionData), up to the first await of the connect() it
\* calls; the ToolResponse of a command that passed the validation is returned
\* when that connect() has returned.
HandleConnect(c, connectionData) ==
    /\ nCommands < MaxCommands
    /\ nCommands' = nCommands + 1
    /\ IF MissingParameters(connectionData)
       THEN /\ toolResponse' = Answer("connect",
                                      toolError("Missing connection parameters"))
            /\ UNCHANGED <<isConnected, isConnecting, currentConfig, zmq_server, call,
                           trace>>
       ELSE /\ NextCall(c)
            /\ ConnectBody(c, "connect",
                           [ipAddress |-> ipAddressOf(connectionData),
                            port |-> portOf(connectionData),
                            topic |-> "arm_state"])
            /\ UNCHANGED toolResponse
    /\ UNCHANGED <<provider, codec, reconnectTimer, zmq_dealer, zmq_subscriber, loop,
                   nDisconnects, nFrames, nUpdates>>

(***************************************************************************)
(* runSubscriptionLoop(): one action per way the wait                      *)
(* `await Promise.race([messagePromise, timeoutPromise])` settles, each    *)
(* running the loop body up to the next wait or to the end of the loop.    *)
(***************************************************************************)
\* An emit("error") of the loop without a listener throws out of the inner
\* catch, again out of the outer catch and again out of the .catch handler of
\* startSubscriptionLoop (isConnected is still true): an unhandled rejection.
LoopError(l, reason, thenStatus, n) ==
    IF EmitErrorThrows
    THEN << Entry("unhandled", reason, "loop", l, n) >>
    ELSE << Entry("error", reason, "loop", l, n) >> \o
         IF thenStatus
         THEN << Entry("connectionStatusChanged", "error", "loop", l, 0) >>
         ELSE << >>

\* A receive that leaves the count of consecutive timeouts as it is.
consecutiveTimeoutsAfterReceive_Kept(n) == n

\* consecutiveTimeouts = 0, once the wait has settled with a result
consecutiveTimeoutsAfterReceive(n) == 0

\* A loop that emits each decoded frame twice.
LoopEmits_Twice(l, decodable, frame) ==
    IF decodable THEN << Entry("stateUpdate", "", "loop", l, frame),
                         Entry("stateUpdate", "", "loop", l, frame) >>
    ELSE << Entry("parseError", "", "loop", l, frame) >>

\* A loop that reports a frame it cannot decode as an error.
LoopEmits_DecodeError(l, decodable, frame) ==
    IF decodable THEN << Entry("stateUpdate", "", "loop", l, frame) >>
    ELSE << Entry("error", "parse", "loop", l, frame) >>

\* What the loop does with a received frame: ParseRobotStateData(message) and
\* emit("stateUpdate", data), or the catch (parseError) that only logs.
LoopEmits(l, decodable, frame) ==
    IF decodable THEN << Entry("stateUpdate", "", "loop", l, frame) >>
    ELSE << Entry("parseError", "", "loop", l, frame) >>

\* The transport delivers frame number nFrames + 1 to the iterator of loop l.
\* next() requests are served in order: a request abandoned by a timed-out
\* wait is still pending and takes the frame before the current wait does.
FrameArrives(l, decodable) ==
    /\ loop[l].pc = "waiting"
    /\ nFrames < MaxFrames
    /\ ~zmq_subscriber.closed \/ loop[l].cancelled
    /\ nFrames' = nFrames + 1
    /\ IF loop[l].abandoned > 0
       THEN /\ loop' = [loop EXCEPT ![l].abandoned = @ - 1]
            /\ trace' = Log(l, << Entry("dropped", "", "loop", l, nFrames + 1) >>)
       ELSE IF ~isConnected
       THEN /\ loop' = [loop EXCEPT ![l] = Ended(l)]
            /\ UNCHANGED trace
       ELSE /\ loop' = [loop EXCEPT
                            ![l].consecutiveTimeouts = consecutiveTimeoutsAfterReceive(@),
                            ![l].sinceReceive = 0]
            /\ trace' = Log(l, LoopEmits(l, decodable, nFrames + 1))
    /\ UNCHANGED <<isConnected, isConnecting, currentConfig, provider, codec, reconnectTimer, toolResponse,
                   nCommands, zmq_server,
                   zmq_dealer, zmq_subscriber, call, nDisconnects, nUpdates>>

\* The timer of the wait fires first.
WaitTimeout(l) ==
    /\ loop[l].pc = "waiting"
    /\ IF ~isConnected
       THEN /\ loop' = [loop EXCEPT ![l] = Ended(l)]
            /\ UNCHANGED trace
       ELSE IF loop[l].consecutiveTimeouts + 1 >= loop[l].MAX
       THEN /\ loop' = [loop EXCEPT ![l] = Ended(l)]
            /\ trace' = Log(l, LoopError(l, "Connection appears to be lost", TRUE,
                                            loop[l].sinceReceive + 1))
       ELSE /\ loop' = [loop EXCEPT ![l].consecutiveTimeouts = @ + 1,
                                    ![l].abandoned = @ + 1,
                                    ![l].sinceReceive = @ + 1]
            /\ UNCHANGED trace
    /\ UNCHANGED <<isConnected, isConnecting, currentConfig, provider, codec, reconnectTimer, toolResponse,
                   nCommands, zmq_server,
                   zmq_dealer, zmq_subscriber, call, nDisconnects, nFrames, nUpdates>>

\* iterator.next() rejects with a transport error that is not a timeout.
WaitError(l) ==
    /\ loop[l].pc = "waiting"
    /\ loop' = [loop EXCEPT ![l] = Ended(l)]
    /\ trace' = IF ~isConnected THEN trace
                ELSE Log(l, LoopError(l, "transport", FALSE, 0))
    /\ UNCHANGED <<isConnected, isConnecting, currentConfig, provider, codec, reconnectTimer, toolResponse,
                   nCommands, zmq_server,
                   zmq_dealer, zmq_subscriber, call, nDisconnects, nFrames, nUpdates>>

\* iterator.next() reports done: the subscriber socket was closed.
WaitDone(l) ==
    /\ loop[l].pc = "waiting"
    /\ zmq_subscriber.closed
    /\ loop' = [loop EXCEPT ![l] = Ended(l)]
    /\ UNCHANGED <<isConnected, isConnecting, currentConfig, provider, codec, reconnectTimer, toolResponse,
                   nCommands, zmq_server,
                   zmq_dealer, zmq_subscriber, call, trace, nDisconnects, nFrames,
                   nUpdates>>

Next ==
    \/ \E c \in Calls, config \in ConfigArgs : ConnectCall(c, config)
    \/ \E c \in Calls, ok \in BOOLEAN : SendDone(c, ok)
    \/ \E c \in Calls, response \in Replies : ReceiveReply(c, response)
    \/ \E c \in Calls : ReceiveFails(c)
    \/ \E c \in Calls : ConnectFinish(c)
    \/ \E fails \in CloseFailures : Disconnect(fails)
    \/ \E c \in Calls, fails \in CloseFailures : ReconnectCall(c, fails)
    \/ \E c \in Calls : ReconnectResume(c)
    \/ \E l \in Calls, decodable \in BOOLEAN : FrameArrives(l, decodable)
    \/ \E l \in Calls : WaitTimeout(l)
    \/ \E l \in Calls : WaitError(l)
    \/ \E l \in Calls : WaitDone(l)

Spec == Init /\ [][Next]_vars

\* The lifecycle with what the scheduling of the program guarantees: a
\* continuation whose await has settled runs (ConnectFinish, ReconnectResume),
\* the timer of a wait fires (WaitTimeout) and the iterator of a closed
\* socket reports done (WaitDone).  Nothing guarantees that the caller calls,
\* that a send completes, or that a peer replies or publishes.
Fairness ==
    /\ \A c \in Calls : WF_vars(ConnectFinish(c))
    /\ \A c \in Calls : WF_vars(ReconnectResume(c))
    /\ \A l \in Calls : WF_vars(WaitTimeout(l))
    /\ \A l \in Calls : WF_vars(WaitDone(l))

SpecLive == Spec /\ Fairness

\* The lifecycle with a caller that also calls updateConfig().
NextConfig ==
    \/ Next
    \/ \E config \in ConfigArgs \ {NoConfig} : UpdateConfig(config)

SpecConfig == Init /\ [][NextConfig]_vars

\* The lifecycle with a caller that also calls executeCommand().  The receive
\* loops take no step here: a loop changes nothing that a command reads.
NextCommands ==
    \/ \E c \in Calls, config \in ConfigArgs : ConnectCall(c, config)
    \/ \E c \in Calls, ok \in BOOLEAN : SendDone(c, ok)
    \/ \E c \in Calls, reply \in Replies : ReceiveReply(c, reply)
    \/ \E c \in Calls : ReceiveFails(c)
    \/ \E c \in Calls : ConnectFinish(c)
    \/ \E fails \in CloseFailures : Disconnect(fails)
    \/ \E c \in Calls, fails \in CloseFailures : ReconnectCall(c, fails)
    \/ \E c \in Calls : ReconnectResume(c)
    \/ \E command \in CommandNames \ LifecycleCommands : ExecuteCommand(command)
    \/ \E c \in Calls, connectionData \in ConnectionDatas :
          HandleConnect(c, connectionData)

SpecCommands == Init /\ [][NextCommands]_vars

(***************************************************************************)
(* The message codecs (message/Command.ts, message/BasicMove.ts,           *)
(* message/ArmState.ts).  A buffer is a sequence of bytes; the byte at     *)
(* offset o of a buffer is its element o + 1.  A DataView over a buffer    *)
(* from a byte offset is the pair (buf, base).                             *)
(***************************************************************************)

\* new ArrayBuffer(n): n zero bytes.
ArrayBuffer(n) == [i \in 1..n |-> 0]

\* The bytes of buf with `bytes` stored from offset on.
setBytes(buf, offset, bytes) ==
    [i \in 1..Len(buf) |->
        IF i - 1 >= offset /\ i - 1 < offset + Len(bytes)
        THEN bytes[i - offset]
        ELSE buf[i]]

getBytes(buf, offset, n) == [i \in 1..n |-> buf[offset + i]]

\* The n low-order bytes of value, least significant first: what
\* DataView.setUint8/16/32(offset, value, true) stores (value modulo 2^(8n)).
UintLE(value, n) == [i \in 1..n |-> (value \div (256 ^ (i - 1))) % 256]

\* What DataView.getUint8/16/32(offset, true) reads.
RECURSIVE ValueLE(_)
ValueLE(bytes) ==
    IF bytes = <<>> THEN 0 ELSE Head(bytes) + 256 * ValueLE(Tail(bytes))

\* The doubles of the model and their IEEE 754 binary64 bytes, least
\* significant first: what DataView.setFloat64(offset, d, true) stores.
Doubles == {"0.0", "1.0", "-2.0", "0.001", "0.002", "-0.002"}

Float64LE(d) ==
    CASE d = "0.0" -> <<0, 0, 0, 0, 0, 0, 0, 0>>
      [] d = "1.0" -> <<0, 0, 0, 0, 0, 0, 240, 63>>
      [] d = "-2.0" -> <<0, 0, 0, 0, 0, 0, 0, 192>>
      [] d = "0.001" -> <<252, 169, 241, 210, 77, 98, 80, 63>>
      [] d = "0.002" -> <<252, 169, 241, 210, 77, 98, 96, 63>>
      [] d = "-0.002" -> <<252, 169, 241, 210, 77, 98, 96, 191>>

\* The value of a double, in millionths.
Micro(d) ==
    CASE d = "0.0" -> 0
      [] d = "1.0" -> 1000000
      [] d = "-2.0" -> -2000000
      [] d = "0.001" -> 1000
      [] d = "0.002" -> 2000
      [] d = "-0.002" -> -2000

\* DataView.getFloat64(offset, true): the double the eight bytes stand for
\* ("other": a double that is none of Doubles).
getFloat64(buf, offset) ==
    LET b == getBytes(buf, offset, 8)
    IN  IF \E d \in Doubles : Float64LE(d) = b
        THEN CHOOSE d \in Doubles : Float64LE(d) = b
        ELSE "other"

\* values[1], values[2], ... stored as doubles at first, first + 8, ... of
\* the view (buf, base).
setFloat64s(buf, base, first, values) ==
    [i \in 1..Len(buf) |->
        LET o == i - 1 - base - first
        IN  IF o >= 0 /\ o < 8 * Len(values)
            THEN Float64LE(values[(o \div 8) + 1])[(o % 8) + 1]
            ELSE buf[i]]

getFloat64s(buf, base, first, n) ==
    [k \in 1..n |-> getFloat64(buf, base + first + (k - 1) * 8)]

\* Command.ts
RequestType_size == 1
CommandId_size == 4
CommandType_size == 2

IRequestType == 0..1      \* kCallback, kNonCallback
ICommandType == 0..10     \* kTestMessage .. kUnknown

RequestType_fromDataView(buf, base) == ValueLE(getBytes(buf, base, 1))
RequestType_writeToDataView(buf, base, data) ==
    setBytes(buf, base, UintLE(data, 1))

CommandId_fromDataView(buf, base) == [cid |-> ValueLE(getBytes(buf, base, 4))]
CommandId_writeToDataView(buf, base, data) ==
    setBytes(buf, base, UintLE(data.cid, 4))

CommandType_fromDataView(buf, base) == ValueLE(getBytes(buf, base, 2))
CommandType_writeToDataView(buf, base, data) ==
    setBytes(buf, base, UintLE(data, 2))

\* BasicMove.ts
kJointPosition == 0
kJointVelocity == 1
kJointTorques == 2
kCartesianPose == 3
kCartesianVelocity == 4
kOther == 5
IBasicMoveType == kJointPosition..kOther

BasicMoveType_size == 1
BasicMoveType_fromDataView(buf, base) == ValueLE(getBytes(buf, base, 1))
BasicMoveType_writeToDataView(buf, base, data) ==
    setBytes(buf, base, UintLE(data, 1))

JointPosition_size == 48
JointPosition_fromDataView(buf, base) ==
    [joint_positions |-> getFloat64s(buf, base, 4, 6)]
\* A writer that starts at the beginning of its view.
JointPosition_writeToDataView_AtZero(buf, base, data) ==
    setFloat64s(buf, base, 0, data.joint_positions)
JointPosition_writeToDataView(buf, base, data) ==
    setFloat64s(buf, base, 4, data.joint_positions)

JointVelocity_size == 48
JointVelocity_fromDataView(buf, base) ==
    [joint_velocities |-> getFloat64s(buf, base, 4, 6)]
JointVelocity_writeToDataView(buf, base, data) ==
    setFloat64s(buf, base, 4, data.joint_velocities)

JointTorques_size == 48
JointTorques_fromDataView(buf, base) ==
    [torques |-> getFloat64s(buf, base, 4, 6)]
JointTorques_writeToDataView(buf, base, data) ==
    setFloat64s(buf, base, 4, data.torques)

CartesianPose_size == 48
CartesianPose_fromDataView(buf, base) ==
    LET v == getFloat64s(buf, base, 0, 6)
    IN  [position |-> SubSeq(v, 1, 3), orientation |-> SubSeq(v, 4, 6)]
CartesianPose_writeToDataView(buf, base, data) ==
    setFloat64s(buf, base, 0, data.position \o data.orientation)

CartesianVelocity_size == 48
CartesianVelocity_fromDataView(buf, base) ==
    LET v == getFloat64s(buf, base, 0, 6)
    IN  [linear_velocity |-> SubSeq(v, 1, 3),
         angular_velocity |-> SubSeq(v, 4, 6)]
CartesianVelocity_writeToDataView(buf, base, data) ==
    setFloat64s(buf, base, 0, data.linear_velocity \o data.angular_velocity)

\* A buffer that has room for the header and one variant only.
BasicMoveReq_size_OneVariant ==
    RequestType_size + CommandId_size + CommandType_size + BasicMoveType_size
        + JointPosition_size
BasicMoveReq_size ==
    RequestType_size + CommandId_size + CommandType_size + BasicMoveType_size
        + JointPosition_size + JointVelocity_size + JointTorques_size
        + CartesianPose_size + CartesianVelocity_size

\* The byte offsets currentOffset takes in toArrayBuffer().
OffsetCommandId == RequestType_size
OffsetCommandType == OffsetCommandId + CommandId_size
OffsetMoveType == OffsetCommandType + CommandType_size
OffsetTarget == OffsetMoveType + BasicMoveType_size

Returned(ret) == [threw |-> FALSE, error |-> "", ret |-> ret]
Thrown(error) == [threw |-> TRUE, error |-> error, ret |-> <<>>]

\* BasicMoveReq.toArrayBuffer(data)
toArrayBuffer(data) ==
    LET ret0 == ArrayBuffer(BasicMoveReq_size)
        ret1 == RequestType_writeToDataView(ret0, 0, data.request_type)
        ret2 == CommandId_writeToDataView(ret1, OffsetCommandId, data.command_id)
        ret3 == CommandType_writeToDataView(ret2, OffsetCommandType,
                                            data.command_type)
        ret4 == BasicMoveType_writeToDataView(ret3, OffsetMoveType,
                                              data.move_type)
    IN  CASE data.move_type = kJointPosition ->
               Returned(JointPosition_writeToDataView(ret4, OffsetTarget,
                                                      data.move_target))
          [] data.move_type = kJointVelocity ->
               Returned(JointVelocity_writeToDataView(ret4, OffsetTarget,
                                                      data.move_target))
          [] data.move_type = kJointTorques ->
               Returned(JointTorques_writeToDataView(ret4, OffsetTarget,
                                                     data.move_target))
          [] data.move_type = kCartesianPose ->
               Returned(CartesianPose_writeToDataView(ret4, OffsetTarget,
                                                      data.move_target))
          [] data.move_type = kCartesianVelocity ->
               Returned(CartesianVelocity_writeToDataView(ret4, OffsetTarget,
                                                          data.move_target))
          [] OTHER -> Thrown("Invalid move type")

\* The target of a decoded request whose move type selects no variant.
NoTarget == [joint_positions |-> <<>>]

\* Decoding a command request: the header fields in the order and at the
\* offsets the encoder gives them, then the variant decoder the discriminant
\* byte selects.
fromArrayBuffer(buf) ==
    LET move_type == BasicMoveType_fromDataView(buf, OffsetMoveType)
    IN  [request_type |-> RequestType_fromDataView(buf, 0),
         command_id |-> CommandId_fromDataView(buf, OffsetCommandId),
         command_type |-> CommandType_fromDataView(buf, OffsetCommandType),
         move_type |-> move_type,
         move_target |->
            CASE move_type = kJointPosition ->
                   JointPosition_fromDataView(buf, OffsetTarget)
              [] move_type = kJointVelocity ->
                   JointVelocity_fromDataView(buf, OffsetTarget)
              [] move_type = kJointTorques ->
                   JointTorques_fromDataView(buf, OffsetTarget)
              [] move_type = kCartesianPose ->
                   CartesianPose_fromDataView(buf, OffsetTarget)
              [] move_type = kCartesianVelocity ->
                   CartesianVelocity_fromDataView(buf, OffsetTarget)
              [] OTHER -> NoTarget]

\* ArmState.ts: the telemetry message is a Buffer of `length` bytes, its
\* frame, that starts at byteOffset of an ArrayBuffer of byteLength bytes.
\* msg.buffer is that ArrayBuffer, whose other bytes are zero in the model.
buffer(msg) == setBytes(ArrayBuffer(msg.byteLength), msg.byteOffset, msg.frame)

\* Math.abs(x) > 0.001 of a value in millionths.
Math_abs(x) == IF x < 0 THEN -x ELSE x
MovingThreshold == 1000
Exceeds_OrEqual(x) == Math_abs(x) >= MovingThreshold
Exceeds(x) == Math_abs(x) > MovingThreshold

\* v * 1000 and (v * 180) / Math.PI of a double: its millionths times the
\* integer factor, over pi where the code divides by Math.PI.  unchanged(v)
\* is a double handed on as it is.
MetersToMillimeters == 1000
HalfTurnDegrees == 180
times1000_Raw(v) == [micro |-> Micro(v), over |-> "1"]
times1000(v) == [micro |-> Micro(v) * MetersToMillimeters, over |-> "1"]
times180overPI(v) == [micro |-> Micro(v) * HalfTurnDegrees, over |-> "pi"]
unchanged(v) == [micro |-> Micro(v), over |-> "1"]

\* convertToRobotArmState(data)
isMoving(data) ==
    \/ \E i \in 1..6 : Exceeds(Micro(data.joint_velocity[i]))
    \/ Exceeds(Micro(data.cartesian_velocity.vx))
    \/ Exceeds(Micro(data.cartesian_velocity.vy))
    \/ Exceeds(Micro(data.cartesian_velocity.vz))
    \/ Exceeds(Micro(data.cartesian_velocity.wx))
    \/ Exceeds(Micro(data.cartesian_velocity.wy))
    \/ Exceeds(Micro(data.cartesian_velocity.wz))

convertToRobotArmState(data) ==
    [connected |-> TRUE, enabled |-> TRUE, moving |-> isMoving(data),
     error |-> "null",
     currentPose |-> [x |-> times1000(data.cartesian_pose.x),
                      y |-> times1000(data.cartesian_pose.y),
                      z |-> times1000(data.cartesian_pose.z),
                      roll |-> times180overPI(data.cartesian_pose.roll),
                      pitch |-> times180overPI(data.cartesian_pose.pitch),
                      yaw |-> times180overPI(data.cartesian_pose.yaw)],
     jointPositions |->
         [i \in 1..6 |-> times180overPI(data.joint_position[i])],
     jointVelocities |->
         [i \in 1..6 |-> times180overPI(data.joint_velocity[i])],
     jointTorques |-> [i \in 1..6 |-> unchanged(data.joint_torques[i])]]

\* ParseRobotStateData reads through new DataView(msg.buffer): 30 doubles
\* from offset 7 of the ArrayBuffer, whatever part of it the message is.
start_offset == 7
double_size == 8
StateDoubles == 30

\* The IRobotState that the reads of ParseRobotStateData fill in.
robotStateData(view) ==
    LET d == getFloat64s(view, 0, start_offset, StateDoubles)
    IN  [joint_position |-> SubSeq(d, 1, 6),
         joint_velocity |-> SubSeq(d, 7, 12),
         joint_torques |-> SubSeq(d, 13, 18),
         cartesian_pose |-> [x |-> d[19], y |-> d[20], z |-> d[21],
                             roll |-> d[22], pitch |-> d[23], yaw |-> d[24]],
         cartesian_velocity |-> [vx |-> d[25], vy |-> d[26], vz |-> d[27],
                                 wx |-> d[28], wy |-> d[29], wz |-> d[30]]]

ParseRobotStateData(msg) ==
    IF start_offset + StateDoubles * double_size > msg.byteLength
    THEN Thrown("RangeError")
    ELSE Returned(convertToRobotArmState(robotStateData(buffer(msg))))

(***************************************************************************)
(* The codec functions applied to bounded sets of inputs.                  *)
(***************************************************************************)
\* The six doubles of a target.
Sixes ==
    { <<"0.0", "0.0", "0.0", "0.0", "0.0", "0.0">>,
      <<"1.0", "-2.0", "0.0", "1.0", "1.0", "-2.0">>,
      <<"-2.0", "1.0", "1.0", "0.0", "-2.0", "0.0">> }

\* The target of the shape the move type stands for.
Target(move_type, six) ==
    CASE move_type = kJointVelocity -> [joint_velocities |-> six]
      [] move_type = kJointTorques -> [torques |-> six]
      [] move_type = kCartesianPose ->
           [position |-> SubSeq(six, 1, 3), orientation |-> SubSeq(six, 4, 6)]
      [] move_type = kCartesianVelocity ->
           [linear_velocity |-> SubSeq(six, 1, 3),
            angular_velocity |-> SubSeq(six, 4, 6)]
      [] OTHER -> [joint_positions |-> six]

\* The six doubles of a request's target, in wire order.
SixOf(data) ==
    CASE data.move_type = kJointVelocity -> data.move_target.joint_velocities
      [] data.move_type = kJointTorques -> data.move_target.torques
      [] data.move_type = kCartesianPose ->
           data.move_target.position \o data.move_target.orientation
      [] data.move_type = kCartesianVelocity ->
           data.move_target.linear_velocity \o data.move_target.angular_velocity
      [] OTHER -> data.move_target.joint_positions

CommandIds == {0, 258, 2147483647}

Requests ==
    { [request_type |-> rt, command_id |-> [cid |-> cid], command_type |-> ct,
       move_type |-> mt, move_target |-> Target(mt, six)] :
         rt \in IRequestType, cid \in CommandIds, ct \in ICommandType,
         mt \in IBasicMoveType, six \in Sixes }

\* Requests as a peer sends them, with discriminant bytes inside and outside
\* the range of IBasicMoveType.
PeerWires ==
    { setBytes(toArrayBuffer(r).ret, OffsetMoveType, <<b>>) :
         r \in {q \in Requests : q.move_type = kJointPosition
                                 /\ q.request_type = 0
                                 /\ q.command_type = 1},
         b \in {kCartesianPose, kOther, 6, 255} }

\* Telemetry messages: shorter than, as long as and longer than a state
\* frame, alone in their ArrayBuffer or a part of a larger one.
Messages ==
    { [length |-> m.length, byteOffset |-> m.byteOffset,
       byteLength |-> m.byteLength, frame |-> ArrayBuffer(m.length)] :
         m \in { msg \in [length : {0, 100, 246, 247, 300},
                          byteOffset : {0, 64},
                          byteLength : {0, 100, 246, 247, 300, 364, 8192}] :
                    msg.byteOffset + msg.length <= msg.byteLength } }

\* The 30 doubles of a state frame: all zero but one, or of the second
\* kind all zero but a 1.0, a -2.0 and a small value two places on.
Thirties ==
    { [i \in 1..StateDoubles |-> IF i = k THEN v ELSE "0.0"] :
         k \in 1..StateDoubles, v \in Doubles }
    \cup
    { [i \in 1..StateDoubles |->
          IF i = k THEN "1.0"
          ELSE IF i = (k % StateDoubles) + 1 THEN "-2.0"
          ELSE IF i = ((k + 1) % StateDoubles) + 1 THEN v
          ELSE "0.0"] :
         k \in 1..StateDoubles, v \in {"0.001", "-0.002"} }

\* State frames as the transport delivers them: 7 bytes of header and the
\* 30 doubles, alone in their ArrayBuffer.
header == <<1, 2, 3, 4, 5, 6, 7>>

StateFrames ==
    { [length |-> 247, byteOffset |-> 0, byteLength |-> 247,
       frame |-> setFloat64s(setBytes(ArrayBuffer(247), 0, header), 0,
                             start_offset, t)] : t \in Thirties }

InitCodec ==
    /\ isConnected = FALSE
    /\ isConnecting = FALSE
    /\ currentConfig = defaultConfig
    /\ provider = TRUE
    /\ reconnectTimer = FALSE
    /\ toolResponse = NoResponse
    /\ nCommands = 0
    /\ zmq_server = NewSocket
    /\ zmq_dealer = NewSocket
    /\ zmq_subscriber = NewSocket
    /\ call = [c \in Calls |-> NewCall]
    /\ loop = [c \in Calls |-> NoLoop]
    /\ trace = [c \in 0..MaxCalls |-> <<>>]
    /\ nDisconnects = 0
    /\ nFrames = 0
    /\ nUpdates = 0
    /\ \/ \E r \in Requests : codec = [NoCodec EXCEPT !.pc = "request",
                                                       !.request = r]
       \/ \E w \in PeerWires : codec = [NoCodec EXCEPT !.pc = "received",
                                                        !.wire = w]
       \/ \E m \in Messages \cup StateFrames :
             codec = [NoCodec EXCEPT !.pc = "message", !.message = m]

Lifeless ==
    UNCHANGED <<isConnected, isConnecting, currentConfig, provider,
                reconnectTimer, toolResponse, nCommands, zmq_server,
                zmq_dealer, zmq_subscriber, call, loop, trace, nDisconnects,
                nFrames, nUpdates>>

\* BasicMoveReq.toArrayBuffer(request)
Encode ==
    /\ codec.pc = "request"
    /\ LET r == toArrayBuffer(codec.request)
       IN  codec' = IF r.threw
                    THEN [codec EXCEPT !.pc = "threw", !.result = r.error]
                    ELSE [codec EXCEPT !.pc = "encoded", !.wire = r.ret]
    /\ Lifeless

\* The bytes of a request decoded.
Decode ==
    /\ codec.pc \in {"encoded", "received"}
    /\ codec' = [codec EXCEPT !.pc = "decoded", !.from = codec.pc,
                              !.decoded = fromArrayBuffer(codec.wire),
                              !.result = "value"]
    /\ Lifeless

\* ParseRobotStateData(message)
ParseState ==
    /\ codec.pc = "message"
    /\ LET r == ParseRobotStateData(codec.message)
       IN  codec' = [codec EXCEPT !.pc = "parsed",
                                  !.state = r.ret,
                                  !.result = IF r.threw THEN r.error
                                             ELSE "state"]
    /\ Lifeless

NextCodec ==
    \/ Encode
    \/ Decode
    \/ ParseState

SpecCodec == InitCodec /\ [][NextCodec]_vars

(***************************************************************************)
(* Reading the trace.                                                      *)
(***************************************************************************)
IsEvent(e) == e.ev \in EventNames
FromLoop(e) == e.src = "loop"
FromConnect(e) == e.src = "connect"
FromDisconnect(e) == e.src = "disconnect"
IsError(e) == e.ev = "error"
IsLinkLost(e) == e.ev \in {"error", "unhandled"} /\ e.arg = "Connection appears to be lost"

LoopPart(c) == SelectSeq(trace[c], FromLoop)
ConnectPart(c) == SelectSeq(trace[c], FromConnect)
DisconnectPart(id) == SelectSeq(trace[id], FromDisconnect)
Events(seq) == SelectSeq(seq, IsEvent)
Names(seq) == [i \in 1..Len(seq) |-> <<seq[i].ev, seq[i].arg>>]

\* The loop of invocation l has reported the link lost.
ObservedThreshold(l) == \E i \in 1..Len(LoopPart(l)) : IsLinkLost(LoopPart(l)[i])

\* The threshold the loop of invocation c read when it started.
Threshold(c) ==
    LET cp == ConnectPart(c) IN cp[Len(cp)].n

\* The connect() of invocation c ended in its catch block.
Failed(c) == call[c].outcome \in {"failed", "rejected"}

\* The three sockets disconnect() closes.
Sockets == {"zmq_subscriber", "zmq_dealer", "zmq_server"}

\* The positions in seq of the entries named ev.
Positions(seq, ev) == {i \in 1..Len(seq) : seq[i].ev = ev}

\* The frame numbers of the stateUpdate events of loop l, in emission order.
StateUpdates(l) ==
    LET su == SelectSeq(LoopPart(l), LAMBDA e : e.ev = "stateUpdate")
    IN  [i \in 1..Len(su) |-> su[i].n]

\* The commands other than connect, disconnect, reconnect and emergency_stop.
OtherCommands ==
    {"enable", "disable", "home", "move_to_target", "stop", "reset",
     "save_home_position", "reset_home_position"}

(***************************************************************************)
(* Steps of the program the properties speak about.                        *)
(***************************************************************************)
\* A run of disconnect(), called directly or by reconnect().
DisconnectStep == \E fails \in CloseFailures :
                      Disconnect(fails) \/ \E c \in Calls : ReconnectCall(c, fails)

\* The wait the loop is in settles (a frame that goes to an abandoned request
\* of an earlier wait does not settle it).
CurrentWaitSettles(l) ==
    \/ WaitTimeout(l)
    \/ WaitError(l)
    \/ WaitDone(l)
    \/ loop[l].abandoned = 0 /\ \E decodable \in BOOLEAN : FrameArrives(l, decodable)

\* What the step appends to the record of operation id.
Appended(id) ==
    IF Len(trace'[id]) > Len(trace[id])
    THEN SubSeq(trace'[id], Len(trace[id]) + 1, Len(trace'[id]))
    ELSE << >>

\* The status of the last connectionStatusChanged event the step emits
\* ("none": it emits none).
StatusEmitted ==
    IF DisconnectStep THEN "disconnected"
    ELSE IF \E id \in 0..MaxCalls :
               \E i \in 1..Len(Appended(id)) :
                   Appended(id)[i].ev = "connectionStatusChanged"
    THEN LET id == CHOOSE id \in 0..MaxCalls :
                       \E i \in 1..Len(Appended(id)) :
                           Appended(id)[i].ev = "connectionStatusChanged"
             st == SelectSeq(Appended(id),
                             LAMBDA e : e.ev = "connectionStatusChanged")
         IN  st[Len(st)].arg
    ELSE "none"

\* The lifecycle state a status stands for.
StateOfStatus(status) ==
    CASE status = "connected" -> "Connected"
      [] status = "connecting" -> "Connecting"
      [] OTHER -> "Disconnected"

(***************************************************************************)
(* C1: connect() called while the lifecycle is Connecting or Connected is  *)
(* a no-op: it returns without error, starts no discovery handshake, emits *)
(* no event, and leaves the flags, the sockets, the receive loops and the  *)
(* stored configuration unchanged, whatever config argument is passed.     *)
(***************************************************************************)
C1_ConnectWhileActiveIsNoOp ==
    [][\A c \in Calls, config \in ConfigArgs :
          (ConnectCall(c, config) /\ (isConnecting \/ isConnected)) =>
              /\ call'[c].pc = "done"
              /\ call'[c].outcome = "noop"
              /\ UNCHANGED <<isConnected, isConnecting, currentConfig, trace,
                             zmq_server, zmq_dealer, zmq_subscriber, loop>>]_vars

\* A connect() that returned as a no-op while another connect() is in flight.
C1_Witness ==
    \E c \in Calls :
        /\ call[c].kind = "connect"
        /\ call[c].outcome = "noop"
        /\ trace[c] = << >>
        /\ isConnecting
        /\ \E b \in Calls : call[b].pc = "receive"

(***************************************************************************)
(* C2: a loop that observes its threshold of consecutive timeouts emits    *)
(* exactly one error event ("connection appears lost"), then one           *)
(* connectionStatusChanged('error') event, and has terminated; these are   *)
(* the last things the loop does.                                          *)
(***************************************************************************)
C2_TimeoutEscalation ==
    \A l \in Calls :
        ObservedThreshold(l) =>
            LET lp == LoopPart(l) IN
            /\ loop[l].pc = "ended"
            /\ Len(lp) >= 2
            /\ Names(SubSeq(lp, Len(lp) - 1, Len(lp))) =
                  << <<"error", "Connection appears to be lost">>,
                     <<"connectionStatusChanged", "error">> >>
            /\ Cardinality({i \in 1..Len(lp) : lp[i].ev = "error"}) = 1

C4_SilentAfterDisconnect ==
    \A l \in Calls :
        \A i \in 1..Len(LoopPart(l)) :
            LoopPart(l)[i].late =>
                LoopPart(l)[i].ev \notin
                    {"error", "unhandled", "connectionStatusChanged", "stateUpdate"}

(***************************************************************************)
(* C5: Error is not terminal.  A connect() attempt that fails leaves both  *)
(* flags false, and a connect() made while both flags are false is not     *)
(* short-circuited: it enters Connecting and invokes make_connection, a    *)
(* new handshake attempt against the stored endpoint.  (C5_Witness: such a *)
(* retry reaches Connected.)                                               *)
(***************************************************************************)
C5_ErrorIsNotTerminal ==
    [][/\ \A c \in Calls :
            (ConnectFinish(c) /\ ~call[c].made) => (~isConnected' /\ ~isConnecting')
       /\ \A c \in Calls, config \in ConfigArgs :
            (/\ ConnectCall(c, config)
             /\ ~isConnected /\ ~isConnecting
             /\ \E b \in Calls : Failed(b)) =>
                /\ isConnecting'
                /\ call'[c].pc \in {"send", "made"}
                /\ Names(trace'[c]) =
                      << <<"connectionStatusChanged", "connecting">>,
                         <<"make_connection", currentConfig'.ipAddress>> >>
                /\ trace'[c][2].n = currentConfig'.port]_vars

\* A connect() that reached Connected after an earlier attempt had failed.
C5_Witness ==
    \E b, c \in Calls :
        /\ b < c
        /\ Failed(b)
        /\ call[c].kind = "connect"
        /\ call[c].outcome = "connected"
        /\ isConnected
        /\ loop[c].pc = "waiting"

(***************************************************************************)
(* C6: a failed connect() attempt emits connectionStatusChanged            *)
(* ('connecting'), then exactly one error event with the reason, then      *)
(* exactly one connectionStatusChanged('error'), and no connected event.   *)
(***************************************************************************)
C6_FailedConnectSurfaced ==
    \A c \in Calls :
        Failed(c) =>
            Names(Events(ConnectPart(c))) =
                << <<"connectionStatusChanged", "connecting">>,
                   <<"error", "Failed to establish ZMQ connections">>,
                   <<"connectionStatusChanged", "error">> >>

(***************************************************************************)
(* C7: disconnect() can be called in every lifecycle state, it always ends *)
(* with connected = false and connecting = false, and it is idempotent:    *)
(* called in the state a disconnect() leaves (Disconnected), it leaves the *)
(* lifecycle state, the two flags and the stored configuration, as it is.  *)
(***************************************************************************)
C7_DisconnectIdempotent ==
    [][DisconnectStep =>
          /\ ~isConnected'
          /\ ~isConnecting'
          /\ currentConfig' = currentConfig
          /\ Lifecycle = "Disconnected" =>
                UNCHANGED <<isConnected, isConnecting, currentConfig>>]_vars

\* Two disconnect() calls in a row, nothing else called: the direct one and the
\* one inside reconnect(), the later of them made in the Disconnected state.
C7_Witness ==
    /\ trace[0] # << >>
    /\ call[1].pc = "gap"
    /\ \A c \in Calls : c > 1 => call[c].pc = "idle"
    /\ trace[1][1].ev = "disconnect"
    /\ trace[0][1].ev = "disconnect"
    /\ "Disconnected" \in {trace[0][1].arg, trace[1][1].arg}
    /\ ~isConnected /\ ~isConnecting

(***************************************************************************)
(* C8: disconnect() sets the connected flag false before it closes any     *)
(* socket, closes all three sockets (subscriber, dealer, request), each of *)
(* them also when closing another one fails, and only then emits           *)
(* disconnected and after it connectionStatusChanged('disconnected').      *)
(***************************************************************************)
C8_DisconnectOrder ==
    \A id \in 0..MaxCalls :
        LET dp == DisconnectPart(id) IN
        dp # << >> =>
            /\ \E f \in Positions(dp, "isConnected") :
                   \A i \in Positions(dp, "close") \cup Positions(dp, "closeThrows") : f < i
            /\ \A sock \in Sockets :
                   \E i \in Positions(dp, "close") : dp[i].arg = sock
            /\ \E d \in Positions(dp, "disconnected"),
                  st \in Positions(dp, "connectionStatusChanged") :
                   /\ d < st
                   /\ \A i \in Positions(dp, "close") \cup Positions(dp, "closeThrows") : i < d

(***************************************************************************)
(* C9: once disconnect() has been called while a receive loop was waiting, *)
(* the loop ends when that wait settles, at the latest by its timeout: it  *)
(* does not start another wait.                                            *)
(***************************************************************************)
C9_LoopEndsAfterDisconnect ==
    [][\A l \in Calls :
          (loop[l].pc = "waiting" /\ loop[l].cancelled /\ CurrentWaitSettles(l)) =>
              loop'[l].pc = "ended"]_vars

(***************************************************************************)
(* C10: reconnect() performs a full disconnect() first and then a          *)
(* connect() that leaves the stored configuration unchanged and runs a new *)
(* discovery handshake against the stored host and port: after the         *)
(* connect() step the request to that endpoint is under way.               *)
(***************************************************************************)
C10_ReconnectRunsHandshake ==
    [][\A c \in Calls :
          /\ (\E fails \in CloseFailures : ReconnectCall(c, fails)) =>
                /\ call'[c].pc = "gap"
                /\ Names(Events(trace'[c])) =
                      << <<"disconnected", "">>,
                         <<"connectionStatusChanged", "disconnected">> >>
          /\ ReconnectResume(c) =>
                /\ currentConfig' = currentConfig
                /\ isConnecting'
                /\ Names(ConnectPart(c)') =
                      << <<"connectionStatusChanged", "connecting">>,
                         <<"make_connection", currentConfig.ipAddress>> >>
                /\ call'[c].pc = "send"
                /\ server_endpoint(currentConfig) \in zmq_server'.endpoints]_vars

(***************************************************************************)
(* C11: a successful connect() does, in this order and nothing else:       *)
(* connectionStatusChanged('connecting'), the discovery handshake, the     *)
(* connected event, connectionStatusChanged('connected'), and then the     *)
(* start of the receive loop; everything the loop of that connection       *)
(* emits, every stateUpdate included, comes after its connected event.     *)
(***************************************************************************)
C11_ConnectOrder ==
    \A c \in Calls :
        LET dp == DisconnectPart(c)
            cp == ConnectPart(c)
            lp == LoopPart(c)
        IN  /\ trace[c] = dp \o cp \o lp
            /\ lp # << >> => call[c].outcome = "connected"
            /\ call[c].outcome = "connected" =>
                  Names(cp) = << <<"connectionStatusChanged", "connecting">>,
                                 <<"make_connection", cp[2].arg>>,
                                 <<"connected", "">>,
                                 <<"connectionStatusChanged", "connected">>,
                                 <<"startSubscriptionLoop", "">> >>
            /\ call[c].pc \in {"send", "receive", "made"} =>
                  Names(cp) = << <<"connectionStatusChanged", "connecting">>,
                                 <<"make_connection", cp[2].arg>> >>

\* A connection whose loop has emitted a stateUpdate.
C11_Witness ==
    \E c \in Calls :
        /\ call[c].outcome = "connected"
        /\ \E i \in 1..Len(LoopPart(c)) : LoopPart(c)[i].ev = "stateUpdate"

C13_OneReceiveLoop ==
    Cardinality({l \in Calls : loop[l].pc = "waiting"}) <= 1

(***************************************************************************)
(* C14: stateUpdate events are emitted in the order in which their frames  *)
(* were received from the transport: the frame numbers of the events of a  *)
(* loop increase strictly, every event is for one frame the transport has  *)
(* delivered, and no frame has more than one event (no reordering, no      *)
(* merging, no duplication).                                               *)
(***************************************************************************)
C14_FramesInOrder ==
    /\ \A l \in Calls :
          LET su == StateUpdates(l) IN
          /\ \A i \in 1..Len(su) : su[i] \in 1..nFrames
          /\ \A i, j \in 1..Len(su) : i < j => su[i] < su[j]
    /\ \A l, m \in Calls :
          l # m => \A i \in 1..Len(StateUpdates(l)), j \in 1..Len(StateUpdates(m)) :
                       StateUpdates(l)[i] # StateUpdates(m)[j]

\* A loop that has emitted the stateUpdate events of two frames.
C14_Witness ==
    \E l \in Calls : StateUpdates(l) = <<1, 2>>

(***************************************************************************)
(* C15: a frame that fails to decode does not stop the stream: the loop    *)
(* that receives it emits no event for it (no error, no status event, no   *)
(* stateUpdate), its count of consecutive timeouts is zero afterwards, and *)
(* it is waiting for the next frame.                                       *)
(***************************************************************************)
C15_DecodeFailureAbsorbed ==
    [][\A l \in Calls :
          (/\ FrameArrives(l, FALSE)
           /\ loop[l].abandoned = 0
           /\ isConnected) =>
              /\ loop'[l].pc = "waiting"
              /\ loop'[l].consecutiveTimeouts = 0
              /\ Events(trace'[l]) = Events(trace[l])
              /\ \A id \in 0..MaxCalls : id # l => trace'[id] = trace[id]
              /\ UNCHANGED <<isConnected, isConnecting>>]_vars

\* A loop that received an undecodable frame and then a decodable one.
C15_Witness ==
    \E l \in Calls :
        LET lp == LoopPart(l) IN
        /\ Len(lp) = 2
        /\ lp[1].ev = "parseError"
        /\ lp[2].ev = "stateUpdate"
        /\ loop[l].pc = "waiting"
        /\ loop[l].consecutiveTimeouts = 0

(***************************************************************************)
(* C16: each of the commands enable, disable, home, move_to_target, stop,  *)
(* reset, save_home_position and reset_home_position, handled while the    *)
(* lifecycle is not Connected, returns the "not connected" error.          *)
(***************************************************************************)
C16_NotConnectedError ==
    (toolResponse.command \in OtherCommands /\ toolResponse.state # "Connected") =>
        /\ toolResponse.isError
        /\ toolResponse.text = "Robot arm is not connected"

(***************************************************************************)
(* C17: emergency_stop handled while the lifecycle is not Connected still  *)
(* attempts to send a stop request, and does not return the "not           *)
(* connected" error.                                                       *)
(***************************************************************************)
C17_EmergencyStopSends ==
    (toolResponse.command = "emergency_stop" /\ toolResponse.state # "Connected") =>
        /\ toolResponse.sent
        /\ toolResponse.text # "Robot arm is not connected"

(***************************************************************************)
(* C18: executeCommand with a name outside the command set returns the     *)
(* "unknown command" error in the same step, changes neither the flags nor *)
(* the stored configuration nor the sockets, starts nothing, and emits no  *)
(* event.                                                                  *)
(***************************************************************************)
C18_UnknownCommand ==
    [][(ExecuteCommand("fly")) =>
          /\ toolResponse'.command = "fly"
          /\ toolResponse'.isError
          /\ toolResponse'.text = "Unknown command"
          /\ UNCHANGED <<isConnected, isConnecting, currentConfig, zmq_server,
                         zmq_dealer, zmq_subscriber, call, loop, trace,
                         reconnectTimer>>]_vars

\* The unknown command answered while a connection is up.
C18_Witness ==
    /\ toolResponse.command = "fly"
    /\ toolResponse.text = "Unknown command"
    /\ toolResponse.state = "Connected"
    /\ isConnected

(***************************************************************************)
(* C19: the connect command given no host or no port returns an error      *)
(* result without invoking connect(): no invocation is started, no event   *)
(* is emitted, and the flags, the stored configuration and the sockets     *)
(* stay unchanged.                                                         *)
(***************************************************************************)
C19_ConnectCommandValidates ==
    [][\A c \in Calls, connectionData \in ConnectionDatas :
          (/\ HandleConnect(c, connectionData)
           /\ (ipAddressOf(connectionData) = "" \/ portOf(connectionData) = 0)) =>
              /\ toolResponse'.command = "connect"
              /\ toolResponse'.isError
              /\ toolResponse'.text = "Missing connection parameters"
              /\ UNCHANGED <<isConnected, isConnecting, currentConfig, zmq_server,
                             zmq_dealer, zmq_subscriber, call, loop, trace,
                             reconnectTimer>>]_vars

\* The connect command rejected for missing parameters in the Disconnected
\* state, where a connect() would have started a handshake.
C19_Witness ==
    /\ toolResponse.command = "connect"
    /\ toolResponse.text = "Missing connection parameters"
    /\ toolResponse.state = "Disconnected"
    /\ currentConfig = defaultConfig
    /\ \A c \in Calls : call[c].pc = "idle"

(***************************************************************************)
(* C20: the discovery request socket is scoped to the handshake: once a    *)
(* connect() has finished, connected or failed, and no handshake is in     *)
(* flight, the lifecycle holds no open request socket.                     *)
(***************************************************************************)
C20_RequestSocketScoped ==
    (/\ \E c \in Calls : call[c].outcome \in {"connected", "failed", "rejected"}
     /\ \A c \in Calls : call[c].pc \notin {"send", "receive", "made"}) =>
        zmq_server.closed

(***************************************************************************)
(* C21: no operation ends in an unhandled fault: no connect() or           *)
(* reconnect() rejects outward and no receive loop ends in an unhandled    *)
(* rejection, whatever fails, also when the subscriber was constructed     *)
(* without a provider.                                                     *)
(***************************************************************************)
C21_NoUnhandledFault ==
    /\ \A c \in Calls : call[c].outcome # "rejected"
    /\ \A id \in 0..MaxCalls :
          \A i \in 1..Len(trace[id]) : trace[id][i].ev # "unhandled"

(***************************************************************************)
(* C22: while a connection is active the stored configuration is not       *)
(* changed, and the running connection keeps what it was started with:     *)
(* from a Connected state no step other than a disconnect() changes the    *)
(* stored configuration, the endpoints of the sockets or the threshold of  *)
(* a running loop.                                                         *)
(***************************************************************************)
C22_ConfigFixedWhileConnected ==
    [][(isConnected /\ ~DisconnectStep) =>
          /\ currentConfig' = currentConfig
          /\ zmq_dealer'.endpoints = zmq_dealer.endpoints
          /\ zmq_subscriber'.endpoints = zmq_subscriber.endpoints
          /\ \A l \in Calls :
                (loop[l].pc = "waiting" /\ loop'[l].pc = "waiting") =>
                    loop'[l].MAX = loop[l].MAX]_vars

(***************************************************************************)
(* C23.  Command-request round trip: for every valid request of the five   *)
(* move-type variants, decoding the bytes that encoding it produced yields *)
(* the request again: request type, 32-bit command id, 16-bit command      *)
(* type, move type and the six doubles of the target.                      *)
(***************************************************************************)
C23_RoundTrip ==
    (codec.pc = "decoded" /\ codec.from = "encoded") =>
        codec.decoded = codec.request

\* A joint position request with the largest command id and doubles that are
\* not all zero has been encoded and decoded.
C23_Witness ==
    /\ codec.pc = "decoded"
    /\ codec.from = "encoded"
    /\ codec.request.move_type = kJointPosition
    /\ codec.request.command_id.cid = 2147483647
    /\ codec.request.move_target.joint_positions[2] = "-2.0"
    /\ codec.decoded.move_target.joint_positions[2] = "-2.0"

(***************************************************************************)
(* C24.  The encoded command request is 248 bytes long for every move-type *)
(* variant: request_type (1 byte), command_id (4 bytes, little-endian),    *)
(* command_type (2 bytes, little-endian) and move_type (1 byte) in this    *)
(* order, followed by a payload area of 240 bytes.                         *)
(***************************************************************************)
C24_FixedFrame ==
    codec.pc = "encoded" =>
        /\ Len(codec.wire) = 248
        /\ Len(codec.wire) - 8 = 240
        /\ codec.wire[1] = codec.request.request_type
        /\ codec.wire[2] + 256 * codec.wire[3] + 65536 * codec.wire[4]
              + 16777216 * codec.wire[5] = codec.request.command_id.cid
        /\ codec.wire[6] + 256 * codec.wire[7] = codec.request.command_type
        /\ codec.wire[8] = codec.request.move_type

\* A Cartesian velocity request with a command id of more than one byte has
\* been encoded.
C24_Witness ==
    /\ codec.pc = "encoded"
    /\ codec.request.move_type = kCartesianVelocity
    /\ codec.request.command_id.cid = 258
    /\ codec.request.command_type = 10
    /\ codec.wire[2] = 2
    /\ codec.wire[3] = 1

(***************************************************************************)
(* C25.  Decoding a telemetry message shorter than 247 bytes (7 bytes of   *)
(* header and 30 doubles of 8 bytes) fails with a decode error and returns *)
(* no state, whatever the length below 247 and whatever other bytes lie in *)
(* the buffer that backs the message.                                      *)
(***************************************************************************)
C25_ShortFrameFails ==
    (codec.pc = "parsed" /\ codec.message.length < 247) =>
        codec.result = "RangeError"

(***************************************************************************)
(* C26.  A transport error that is not a timeout, raised by the wait while *)
(* the lifecycle is connected, makes the receive loop emit exactly one     *)
(* error event and terminate: the error is the last thing the loop does.   *)
(***************************************************************************)
C26_TransportErrorEndsLoop ==
    \A l \in Calls :
        LET lp == LoopPart(l) IN
        (\E i \in 1..Len(lp) : lp[i].arg = "transport") =>
            /\ loop[l].pc = "ended"
            /\ Cardinality({i \in 1..Len(lp) : lp[i].ev = "error"}) = 1
            /\ lp[Len(lp)].ev = "error"
            /\ lp[Len(lp)].arg = "transport"

(***************************************************************************)
(* C28.  In the Connected state each of the handlers enable, disable,      *)
(* home, move_to_target, stop and reset encodes a command request and      *)
(* sends it on the dealer socket before it returns its success result.     *)
(***************************************************************************)
C28_ConnectedHandlersSend ==
    (/\ toolResponse.command \in ConnectionChecked
     /\ toolResponse.state = "Connected"
     /\ ~toolResponse.isError) => toolResponse.sent

(***************************************************************************)
(* C29.  Encoding never fails for well-typed input: for every request      *)
(* whose move type is one of the six discriminants (joint position, joint  *)
(* velocity, joint torque, Cartesian pose, Cartesian velocity, other) and  *)
(* whose target holds six doubles, toArrayBuffer returns a buffer and does *)
(* not throw.                                                              *)
(***************************************************************************)
C29_EncodingNeverFails ==
    (codec.pc \in {"encoded", "threw"}
        /\ codec.request.move_type \in IBasicMoveType) =>
            /\ codec.pc = "encoded"
            /\ Len(codec.wire) = BasicMoveReq_size

(***************************************************************************)
(* C30.  Decoding a command request whose discriminant byte is outside the *)
(* defined range of move types fails with an UnknownMoveType error: it     *)
(* yields no move type value and falls into no default case.               *)
(***************************************************************************)
C30_UnknownMoveType ==
    (codec.pc = "decoded" /\ codec.wire[OffsetMoveType + 1] \notin IBasicMoveType) =>
        /\ codec.result = "UnknownMoveType"
        /\ codec.decoded.move_type \in IBasicMoveType

(***************************************************************************)
(* C27.  Every connect() attempt eventually leaves the Connecting state,   *)
(* ending Connected or in error with isConnecting false, also when the     *)
(* rendezvous endpoint never replies to the discovery request: the         *)
(* discovery round trip is bounded by a timeout.                           *)
(***************************************************************************)
C27_ConnectLeavesConnecting == isConnecting ~> ~isConnecting

(***************************************************************************)
(* C34.  The connecting and the connected flag are never both true: under  *)
(* every interleaving of connect(), disconnect(), reconnect() and the      *)
(* receive loop the lifecycle is in exactly one of Disconnected (both      *)
(* false), Connecting and Connected.                                       *)
(***************************************************************************)
C34_FlagsExclusive ==
    /\ ~(isConnected /\ isConnecting)
    /\ Cardinality({ st \in {"Disconnected", "Connecting", "Connected"} :
                       \/ st = "Disconnected" /\ ~isConnected /\ ~isConnecting
                       \/ st = "Connecting" /\ isConnecting
                       \/ st = "Connected" /\ isConnected }) = 1

\* A connect() has reached Connected while a later invocation, begun after a
\* disconnect(), is still in its handshake.
C34_Witness ==
    /\ isConnected
    /\ call[1].outcome = "connected"
    /\ call[2].pc \in {"send", "receive", "made"}
    /\ nDisconnects = 1

(***************************************************************************)
(* C35.  Whenever the lifecycle reports connected = true a receive loop is *)
(* active: once the loop has terminated (timeout threshold, transport      *)
(* error, closed subscriber stream) the lifecycle no longer reports        *)
(* Connected.                                                              *)
(***************************************************************************)
C35_ConnectedHasLoop ==
    isConnected => \E l \in Calls : loop[l].pc = "waiting"

(***************************************************************************)
(* C36.  The status of the most recently emitted connectionStatusChanged   *)
(* event agrees with what getConnectionStatus() reports: 'connected' iff   *)
(* connected = true, 'connecting' iff connecting = true, 'disconnected'    *)
(* or 'error' only when both flags are false.  Stated on the steps: a step *)
(* that emits a status leaves the flags in the state the status stands     *)
(* for, and a step that emits none leaves the flags as they are.           *)
(***************************************************************************)
C36_StatusAgreesWithFlags ==
    [][IF StatusEmitted = "none"
       THEN isConnected' = isConnected /\ isConnecting' = isConnecting
       ELSE Lifecycle' = StateOfStatus(StatusEmitted)]_vars

(***************************************************************************)
(* C37.  The lifecycle is reusable after a disconnect: once disconnect()   *)
(* has completed, a later connect(), or the connect() inside reconnect(),  *)
(* finds the sockets it needs usable: it sends its discovery request, and  *)
(* a correct reply from the controller brings the handshake to success.    *)
(***************************************************************************)
C37_ReusableAfterDisconnect ==
    [][\A c \in Calls :
          /\ ((\/ \E config \in ConfigArgs : ConnectCall(c, config)
               \/ ReconnectResume(c))
              /\ ~AlreadyActive
              /\ (nDisconnects > 0 \/ \E b \in Calls : call[b].kind = "reconnect"))
                => call'[c].pc = "send"
          /\ (ReceiveReply(c, GoodReply)
              /\ (nDisconnects > 0 \/ \E b \in Calls : call[b].kind = "reconnect"))
                => call'[c].made]_vars

(***************************************************************************)
(* C38.  A disconnect() issued while a connect() is in flight wins: when   *)
(* the caller has made no later connect() or reconnect(), the in-flight    *)
(* connect() does not set connected = true after that disconnect(), emits  *)
(* neither connected nor connectionStatusChanged('connected') and starts   *)
(* no receive loop.  (A connect() that finds the connecting flag false at  *)
(* its return from the handshake was overtaken by a disconnect().)         *)
(***************************************************************************)
C38_DisconnectWins ==
    [][\A c \in Calls :
          (/\ ConnectFinish(c)
           /\ ~isConnecting
           /\ nDisconnects > 0
           /\ \A b \in Calls : b # c => call[b].pc = "idle")
            => /\ ~isConnected'
               /\ call'[c].outcome # "connected"
               /\ loop'[c].pc # "waiting"
               /\ \A i \in 1..Len(Appended(c)) :
                     Appended(c)[i].ev # "connected"
                       /\ Appended(c)[i].arg # "connected"]_vars

(***************************************************************************)
(* C39.  No telemetry frame is lost across a timeout: while the lifecycle  *)
(* stays connected and the loop is running, every frame the transport      *)
(* delivers, also one that arrives after a wait has timed out and a new    *)
(* wait has begun, results in exactly one stateUpdate event or one logged  *)
(* decode failure; the receive request a timed-out wait left behind takes  *)
(* no frame.                                                               *)
(***************************************************************************)
C39_NoFrameLost ==
    \A l \in Calls :
        LET lp == LoopPart(l) IN
        /\ \A i \in 1..Len(lp) : lp[i].ev = "dropped" => lp[i].late
        /\ \A i, j \in 1..Len(lp) :
              (lp[i].ev \in {"stateUpdate", "parseError"}
                  /\ lp[j].ev \in {"stateUpdate", "parseError"}
                  /\ lp[i].n = lp[j].n) => i = j

(***************************************************************************)
(* C40.  For every move-type variant the encoder writes the six doubles of *)
(* the target at the same place, the 48 bytes right after the move_type    *)
(* byte (buffer offsets 8 to 55), and leaves every other byte of the       *)
(* 240-byte payload area zero.                                             *)
(***************************************************************************)
C40_PayloadPlace ==
    codec.pc = "encoded" =>
        /\ getFloat64s(codec.wire, 8, 0, 6) = SixOf(codec.request)
        /\ \A o \in 56..(Len(codec.wire) - 1) : codec.wire[o + 1] = 0

C32_MovingFlag ==
    (codec.pc = "parsed" /\ codec.result = "state") =>
        LET wire == getFloat64s(buffer(codec.message), 0, 7, 30)
            velocity == [k \in 1..12 |->
                            Micro(IF k <= 6 THEN wire[6 + k] ELSE wire[18 + k])]
        IN  /\ codec.state.moving =
                   (\E k \in 1..12 : velocity[k] > 1000 \/ velocity[k] < -1000)
            /\ (\A k \in 1..12 : velocity[k] = 0) => ~codec.state.moving
            /\ (\A k \in 1..12 : velocity[k] \in {-1000, 0, 1000}) =>
                   ~codec.state.moving

\* A frame whose third joint velocity is exactly 0.001, all others zero, has
\* been decoded into a state that is not moving.
C32_Witness ==
    /\ codec.pc = "parsed"
    /\ codec.result = "state"
    /\ codec.message.length = 247
    /\ codec.message.byteOffset = 0
    /\ getBytes(codec.message.frame, 7 + 8 * 8, 8)
           = <<252, 169, 241, 210, 77, 98, 80, 63>>
    /\ \A k \in (7..12) \cup (25..30) :
           k # 9 => getBytes(codec.message.frame, 7 + 8 * (k - 1), 8)
                       = <<0, 0, 0, 0, 0, 0, 0, 0>>
    /\ ~codec.state.moving

(***************************************************************************)
(* C33.  In a decoded state the pose x, y, z are the frame's values times  *)
(* 1000; the pose roll, pitch, yaw, the six joint positions and the six    *)
(* joint velocities are the frame's values times 180 over pi; the six      *)
(* joint torques are the frame's values, unchanged and in the same order.  *)
(***************************************************************************)
C33_UnitNormalisation ==
    (codec.pc = "parsed" /\ codec.result = "state") =>
        LET wire == getFloat64s(buffer(codec.message), 0, 7, 30)
            linear(k) == [micro |-> Micro(wire[k]) * 1000, over |-> "1"]
            angular(k) == [micro |-> Micro(wire[k]) * 180, over |-> "pi"]
            same(k) == [micro |-> Micro(wire[k]), over |-> "1"]
        IN  /\ codec.state.currentPose.x = linear(19)
            /\ codec.state.currentPose.y = linear(20)
            /\ codec.state.currentPose.z = linear(21)
            /\ codec.state.currentPose.roll = angular(22)
            /\ codec.state.currentPose.pitch = angular(23)
            /\ codec.state.currentPose.yaw = angular(24)
            /\ \A i \in 1..6 :
                   /\ codec.state.jointPositions[i] = angular(i)
                   /\ codec.state.jointVelocities[i] = angular(6 + i)
                   /\ codec.state.jointTorques[i] = same(12 + i)

\* A frame with pose x = 1.0, y = -2.0 and z = 0.001 has been decoded: the
\* state has x = 1000, y = -2000 and z = 1.
C33_Witness ==
    /\ codec.pc = "parsed"
    /\ codec.result = "state"
    /\ codec.message.length = 247
    /\ codec.message.byteOffset = 0
    /\ getBytes(codec.message.frame, 7 + 8 * 18, 8)
           = <<0, 0, 0, 0, 0, 0, 240, 63>>
    /\ getBytes(codec.message.frame, 7 + 8 * 19, 8)
           = <<0, 0, 0, 0, 0, 0, 0, 192>>
    /\ getBytes(codec.message.frame, 7 + 8 * 20, 8)
           = <<252, 169, 241, 210, 77, 98, 80, 63>>
    /\ codec.state.currentPose.x.micro = 1000000000
    /\ codec.state.currentPose.y.micro = -2000000000
    /\ codec.state.currentPose.z.micro = 1000000

====
